---- MODULE Spec2Model ----
(***************************************************************************)
(* Chain-of-responsibility mail pipeline of imap_handler.py:               *)
(* AbstractHandler.set_prev / handle, the three concrete handlers          *)
(* (ImapHandler, AuthenticationHandler, GetMessageHandler) and one further *)
(* subclass of AbstractHandler whose execute is left abstract.             *)
(*                                                                         *)
(* The interpreter's call stack is explicit: one frame per handle() call.  *)
(* An exception unwinds every frame, since no frame has an except clause.  *)
(*                                                                         *)
(* Spec is the main block with any linking and any server behaviour;       *)
(* FairSpec adds that the interpreter keeps going; SpecCred runs           *)
(* ImapHandler.execute over request dictionaries of every shape; SpecLink  *)
(* links two instances of one class; SpecTwice runs client_code twice.     *)
(***************************************************************************)
EXTENDS Integers, Sequences, FiniteSets, TLC

VARIABLES
    phase,      \* "build": handlers are being linked; "run": client_code is executing; "done"
    prev,       \* prev[s]: the instance attribute _next_handler of handler s
    requested,  \* history: the argument of the last set_prev call made on s
    firstLink,  \* history: the handler on which set_prev was called first
    entry,      \* the handler given to client_code
    request,    \* the request given to client_code
    stack,      \* call stack of handle() frames, innermost last
    ctl,        \* what the innermost frame is doing: running, returning a value, raising;
                \* while linking, what the last set_prev call returned
    execArg,    \* the argument of the execute() call of the innermost frame
    loc,        \* local variables and position of the execute() in progress
    imapSess,   \* state of the IMAP4_SSL object created by this run
    smtpSess,   \* state of the SMTP_SSL object created by this run
    ops,        \* history: the server operations the run attempted, in order, with their outcome
    found,      \* history: the identifiers the search returned
    served,     \* history: the messages the server handed out, in order
    out,        \* the lines the run printed by __print_header, in order
    trace,      \* history: execute() calls and returns, handle() returns
    result      \* what client_code produced: a value or an error

vars == <<phase, prev, requested, firstLink, entry, request, stack, ctl, execArg,
          loc, imapSess, smtpSess, ops, found, served, out, trace, result>>

-----------------------------------------------------------------------------
(* Bounds *)

\* largest number of message identifiers a search returns
MaxMsgs == 2

\* deepest nesting of handle() calls before the interpreter raises RecursionError
RecursionLimit == 6

-----------------------------------------------------------------------------
(* Handlers *)

\* the instances: imap = ImapHandler(), auth = AuthenticationHandler(),
\* msg = GetMessageHandler(), x = an instance of another AbstractHandler subclass
Stages == {"imap", "auth", "msg", "x"}

\* the class attribute _next_handler = None
NoHandler == "None"

-----------------------------------------------------------------------------
(* Python values *)

None == [kind |-> "NoneType"]

Zero == [kind |-> "int", n |-> 0]

False == [kind |-> "bool", b |-> FALSE]

EmptySeq == [kind |-> "list", items |-> <<>>]

\* a non-empty string
Tok == [kind |-> "str", chars |-> "ok"]

\* values held by a request dictionary
StrVal(s) == [t |-> "str", s |-> s]

IntVal(i) == [t |-> "int", i |-> i]

\* the request dictionary of the main block
ValidReq ==
    [kind |-> "dict",
     map |-> [user_name |-> StrVal("roboket.test@gmail.com"), password |-> StrVal("secret"),
              imap_ssl_port |-> IntVal(993), imap_ssl_host |-> StrVal("imap.gmail.com"),
              smtp_ssl_port |-> IntVal(465), smtp_ssl_host |-> StrVal("smtp.gmail.com")]]

\* an EmailData(...) call whose two port arguments are exchanged
EmailDataPortsSwapped(m) ==
    [kind |-> "EmailData",
     user_name |-> m.user_name, password |-> m.password,
     imap_ssl_port |-> m.smtp_ssl_port, imap_ssl_host |-> m.imap_ssl_host,
     smtp_ssl_port |-> m.imap_ssl_port, smtp_ssl_host |-> m.smtp_ssl_host]

\* EmailData(...): the six fields taken from the mapping m
EmailData(m) ==
    [kind |-> "EmailData",
     user_name |-> m.user_name, password |-> m.password,
     imap_ssl_port |-> m.imap_ssl_port, imap_ssl_host |-> m.imap_ssl_host,
     smtp_ssl_port |-> m.smtp_ssl_port, smtp_ssl_host |-> m.smtp_ssl_host]

\* the tuple (imap_server, smtp_server) returned by AuthenticationHandler.execute
SessionPair == [kind |-> "tuple", items |-> <<"imap_server", "smtp_server">>]

Exc(type) == [kind |-> "exception", type |-> type]

\* Python truth value of v, as tested by "if response:"
Truthy(v) ==
    CASE v.kind = "NoneType" -> FALSE
      [] v.kind = "int" -> v.n # 0
      [] v.kind = "bool" -> v.b
      [] v.kind = "list" -> v.items # <<>>
      [] v.kind = "tuple" -> v.items # <<>>
      [] v.kind = "str" -> v.chars # ""
      [] v.kind = "dict" -> TRUE
      [] OTHER -> TRUE

\* the values an execute() left abstract may return
StubReturns == {None, Zero, False, EmptySeq, Tok}

\* the requests client_code is called with
Requests == {ValidReq, Zero}

-----------------------------------------------------------------------------
(* Initial state: the three handlers of the main block and x, all unlinked *)

NoLoc == [pc |-> "idle"]

Running == [mode |-> "run"]

Returning(v) == [mode |-> "return", val |-> v]

Raising(e) == [mode |-> "raise", exc |-> e]

Init ==
    /\ phase = "build"
    /\ prev = [s \in Stages |-> NoHandler]
    /\ requested = [s \in Stages |-> NoHandler]
    /\ firstLink = NoHandler
    /\ entry = NoHandler
    /\ request = None
    /\ stack = <<>>
    /\ ctl = Running
    /\ execArg = None
    /\ loc = NoLoc
    /\ imapSess = "absent"
    /\ smtpSess = "absent"
    /\ ops = <<>>
    /\ found = <<>>
    /\ served = <<>>
    /\ out = <<>>
    /\ trace = <<>>
    /\ result = [kind |-> "pending"]

-----------------------------------------------------------------------------
(* AbstractHandler.set_prev *)

\* the class of each instance
ClassOf(s) ==
    CASE s \in {"imap", "imap2"} -> "ImapHandler"
      [] s = "auth" -> "AuthenticationHandler"
      [] s = "msg" -> "GetMessageHandler"
      [] OTHER -> "Stub"

\* a set_prev that assigns the attribute of the class of self
SetPrevFieldOfClass(p, self, handler) ==
    [s \in DOMAIN p |-> IF ClassOf(s) = ClassOf(self) THEN handler ELSE p[s]]

\* a set_prev that assigns the class attribute, which every instance shares
SetPrevFieldShared(p, self, handler) == [s \in DOMAIN p |-> handler]

\* self._next_handler = handler: an instance attribute of self alone
SetPrevField(p, self, handler) == [p EXCEPT ![self] = handler]

\* a reference to handler h, as a value
HandlerRef(h) == [kind |-> "handler", name |-> h]

\* a set_prev that ends with "return self"
SetPrevReturnSelf(self, handler) == self

\* return handler
SetPrevReturn(self, handler) == handler

\* history: the call self.set_prev(handler); when the call is chained to the
\* previous one, "before.set_prev(after).set_prev(handler)", the receiver and
\* the argument of that previous call
CallRecord(self, handler, chained) ==
    [self |-> self, handler |-> handler, chained |-> chained,
     before |-> IF chained THEN ctl.call.self ELSE NoHandler,
     after |-> IF chained THEN ctl.call.handler ELSE NoHandler]

\* self.set_prev(handler); chained tells whether self is the value the
\* previous set_prev call returned
set_prev(self, handler, chained) ==
    /\ phase = "build"
    /\ prev' = SetPrevField(prev, self, handler)
    /\ ctl' = [mode |-> "return", val |-> HandlerRef(SetPrevReturn(self, handler)),
               call |-> CallRecord(self, handler, chained)]
    /\ requested' = [requested EXCEPT ![self] = handler]
    /\ firstLink' = IF firstLink = NoHandler THEN self ELSE firstLink
    /\ UNCHANGED <<phase, entry, request, stack, execArg, loc, imapSess,
                   smtpSess, ops, found, served, out, trace, result>>

\* the statement "h.set_prev(handler)" on a handler named by a variable
LinkStatement(self, handler) == set_prev(self, handler, FALSE)

\* the call ".set_prev(handler)" made on the value the previous set_prev call
\* returned, as in msg.set_prev(auth).set_prev(imap)
LinkChained(handler) ==
    /\ phase = "build" /\ ctl.mode = "return"
    /\ set_prev(ctl.val.name, handler, TRUE)

-----------------------------------------------------------------------------
(* client_code and AbstractHandler.handle *)

Top == stack[Len(stack)]

\* a frame of handle(self, request) at its first statement
Frame(self, req) == [stage |-> self, request |-> req, pc |-> "enter"]

\* the request the predecessor's handle is called with: self._next_handler.handle(request)
PassedDown(f) == f.request

Event(ev, s, v) == [ev |-> ev, stage |-> s, val |-> v]

\* return handler.handle(request)
client_code(handler, req) ==
    /\ phase = "build"
    /\ phase' = "run"
    /\ entry' = handler
    /\ request' = req
    /\ stack' = <<Frame(handler, req)>>
    /\ ctl' = Running
    /\ UNCHANGED <<prev, requested, firstLink, execArg, loc, imapSess,
                   smtpSess, ops, found, served, out, trace, result>>

\* a handle that calls self.handle(request) where it should call the handle of
\* the predecessor
HandleEnterSelfCall ==
    /\ phase = "run" /\ ctl.mode = "run" /\ Top.pc = "enter"
    /\ IF prev[Top.stage] # NoHandler
       THEN IF Len(stack) < RecursionLimit
            THEN /\ stack' = Append([stack EXCEPT ![Len(stack)].pc = "wait"],
                                     Frame(Top.stage, PassedDown(Top)))
                 /\ UNCHANGED <<ctl, execArg>>
            ELSE /\ ctl' = Raising(Exc("RecursionError"))
                 /\ UNCHANGED <<stack, execArg>>
       ELSE /\ stack' = [stack EXCEPT ![Len(stack)].pc = "exec"]
            /\ execArg' = Top.request
            /\ UNCHANGED ctl
    /\ UNCHANGED <<phase, prev, requested, firstLink, entry, request, loc, imapSess,
                   smtpSess, ops, found, served, out, trace, result>>

\* "if self._next_handler is not None": call the predecessor's handle with the
\* request, or else call self.execute(request)
HandleEnter ==
    /\ phase = "run" /\ ctl.mode = "run" /\ Top.pc = "enter"
    /\ IF prev[Top.stage] # NoHandler
       THEN IF Len(stack) < RecursionLimit
            THEN /\ stack' = Append([stack EXCEPT ![Len(stack)].pc = "wait"],
                                     Frame(prev[Top.stage], PassedDown(Top)))
                 /\ UNCHANGED <<ctl, execArg>>
            ELSE /\ ctl' = Raising(Exc("RecursionError"))
                 /\ UNCHANGED <<stack, execArg>>
       ELSE /\ stack' = [stack EXCEPT ![Len(stack)].pc = "exec"]
            /\ execArg' = Top.request
            /\ UNCHANGED ctl
    /\ UNCHANGED <<phase, prev, requested, firstLink, entry, request, loc, imapSess,
                   smtpSess, ops, found, served, out, trace, result>>

\* a handle that tests "if response is not None"
AfterResponseNotNone(f, response) ==
    IF response # None
    THEN [pc |-> "exec", ctl |-> Running, arg |-> response]
    ELSE [pc |-> "wait", ctl |-> Returning(None), arg |-> execArg]

\* a handle that calls self.execute(request) after a truthy response
AfterResponseRequest(f, response) ==
    IF Truthy(response)
    THEN [pc |-> "exec", ctl |-> Running, arg |-> f.request]
    ELSE [pc |-> "wait", ctl |-> Returning(None), arg |-> execArg]

\* a handle that ends with "return response" when the response is falsy
AfterResponseKept(f, response) ==
    IF Truthy(response)
    THEN [pc |-> "exec", ctl |-> Running, arg |-> response]
    ELSE [pc |-> "wait", ctl |-> Returning(response), arg |-> execArg]

\* what handle does with the response of the predecessor's handle:
\* "if response: return self.execute(response)", and otherwise it falls off the
\* end of the function, which returns None
AfterResponse(f, response) ==
    IF Truthy(response)
    THEN [pc |-> "exec", ctl |-> Running, arg |-> response]
    ELSE [pc |-> "wait", ctl |-> Returning(None), arg |-> execArg]

\* a handle that sets self._next_handler to None once the predecessor's handle
\* has returned
HandleReturnUnlinks ==
    /\ phase = "run" /\ ctl.mode = "return"
    /\ trace' = Append(trace, [ev |-> "handled", stage |-> Top.stage, val |-> ctl.val,
                               caller |-> IF Len(stack) = 1 THEN NoHandler
                                          ELSE stack[Len(stack) - 1].stage])
    /\ IF Len(stack) = 1
       THEN /\ stack' = <<>>
            /\ phase' = "done"
            /\ result' = [kind |-> "value", val |-> ctl.val]
            /\ ctl' = Running
            /\ UNCHANGED <<execArg, prev>>
       ELSE LET rest == SubSeq(stack, 1, Len(stack) - 1)
                next == AfterResponse(rest[Len(rest)], ctl.val)
            IN /\ stack' = [rest EXCEPT ![Len(rest)].pc = next.pc]
               /\ ctl' = next.ctl
               /\ execArg' = next.arg
               /\ prev' = [prev EXCEPT ![rest[Len(rest)].stage] = NoHandler]
               /\ UNCHANGED <<phase, result>>
    /\ UNCHANGED <<requested, firstLink, entry, request, loc, imapSess,
                   smtpSess, ops, found, served, out>>

\* the innermost handle() returns ctl.val to its caller
HandleReturn ==
    /\ phase = "run" /\ ctl.mode = "return"
    /\ trace' = Append(trace, [ev |-> "handled", stage |-> Top.stage, val |-> ctl.val,
                               caller |-> IF Len(stack) = 1 THEN NoHandler
                                          ELSE stack[Len(stack) - 1].stage])
    /\ IF Len(stack) = 1
       THEN /\ stack' = <<>>
            /\ phase' = "done"
            /\ result' = [kind |-> "value", val |-> ctl.val]
            /\ ctl' = Running
            /\ UNCHANGED execArg
       ELSE LET rest == SubSeq(stack, 1, Len(stack) - 1)
                next == AfterResponse(rest[Len(rest)], ctl.val)
            IN /\ stack' = [rest EXCEPT ![Len(rest)].pc = next.pc]
               /\ ctl' = next.ctl
               /\ execArg' = next.arg
               /\ UNCHANGED <<phase, result>>
    /\ UNCHANGED <<prev, requested, firstLink, entry, request, loc, imapSess,
                   smtpSess, ops, found, served, out>>

\* a handle that catches the exception of the innermost frame and returns None
PropagateCaught ==
    /\ phase = "run" /\ ctl.mode = "raise"
    /\ ctl' = Returning(None)
    /\ UNCHANGED <<phase, prev, requested, firstLink, entry, request, stack, execArg,
                   loc, imapSess, smtpSess, ops, found, served, out, trace, result>>

\* an exception leaves every frame: no handle or execute catches anything
Propagate ==
    /\ phase = "run" /\ ctl.mode = "raise"
    /\ stack' = <<>>
    /\ phase' = "done"
    /\ result' = [kind |-> "error", exc |-> ctl.exc]
    /\ ctl' = Running
    /\ UNCHANGED <<prev, requested, firstLink, entry, request, execArg, loc, imapSess,
                   smtpSess, ops, found, served, out, trace>>

-----------------------------------------------------------------------------
(* execute of the subclass left abstract: any return value, or an exception *)

Executing(s) == phase = "run" /\ ctl.mode = "run" /\ Top.pc = "exec" /\ Top.stage = s

Called(s) == Append(trace, Event("execute", s, execArg))

StubExecute ==
    /\ Executing("x")
    /\ \/ \E v \in StubReturns :
            /\ ctl' = Returning(v)
            /\ trace' = Called("x") \o <<Event("returned", "x", v)>>
       \/ /\ ctl' = Raising(Exc("StubError"))
          /\ trace' = Called("x") \o <<Event("raised", "x", Exc("StubError"))>>
    /\ UNCHANGED <<phase, prev, requested, firstLink, entry, request, stack, execArg,
                   loc, imapSess, smtpSess, ops, found, served, out, result>>

-----------------------------------------------------------------------------
(* ImapHandler.execute *)

\* the keys in the order the keyword arguments of EmailData(...) are evaluated
Keys == <<"user_name", "password", "imap_ssl_port", "imap_ssl_host",
          "smtp_ssl_port", "smtp_ssl_host">>

\* the field types declared by class EmailData
FieldType ==
    [user_name |-> "str", password |-> "str", imap_ssl_port |-> "int",
     imap_ssl_host |-> "str", smtp_ssl_port |-> "int", smtp_ssl_host |-> "str"]

\* an EmailData whose fields carry validators: strings non-empty, ports 16-bit
ImapOutcomeConstrained(arg) ==
    IF arg.kind # "dict" THEN Raising(Exc("TypeError"))
    ELSE IF \E i \in 1..Len(Keys) : Keys[i] \notin DOMAIN arg.map
         THEN Raising(Exc("KeyError"))
    ELSE IF \E i \in 1..Len(Keys) :
                \/ arg.map[Keys[i]].t # FieldType[Keys[i]]
                \/ arg.map[Keys[i]].t = "str" /\ arg.map[Keys[i]].s = ""
                \/ arg.map[Keys[i]].t = "int" /\ arg.map[Keys[i]].i \notin 1..65535
         THEN Raising(Exc("ValidationError"))
    ELSE Returning(EmailData(arg.map))

\* the outcome of ImapHandler.execute(arg): subscripting a value that is no
\* mapping is a TypeError, request[key] of an absent key is a KeyError, and
\* EmailData rejects a value of the wrong type with a ValidationError
ImapOutcome(arg) ==
    IF arg.kind # "dict" THEN Raising(Exc("TypeError"))
    ELSE IF \E i \in 1..Len(Keys) : Keys[i] \notin DOMAIN arg.map
         THEN Raising(Exc("KeyError"))
    ELSE IF \E i \in 1..Len(Keys) : arg.map[Keys[i]].t # FieldType[Keys[i]]
         THEN Raising(Exc("ValidationError"))
    ELSE Returning(EmailData(arg.map))

Outcome(s, c) ==
    IF c.mode = "return" THEN Event("returned", s, c.val) ELSE Event("raised", s, c.exc)

ImapExecute ==
    /\ Executing("imap")
    /\ ctl' = ImapOutcome(execArg)
    /\ trace' = Called("imap") \o <<Outcome("imap", ImapOutcome(execArg))>>
    /\ UNCHANGED <<phase, prev, requested, firstLink, entry, request, stack, execArg,
                   loc, imapSess, smtpSess, ops, found, served, out, result>>

-----------------------------------------------------------------------------
(* AuthenticationHandler.execute *)

\* a server operation on message id (0: none) and whether it succeeded
Op(name, id, ok) == [op |-> name, id |-> id, ok |-> ok]

\* the execute in progress raises e
Fail(s, e) ==
    /\ ctl' = Raising(Exc(e))
    /\ loc' = NoLoc
    /\ trace' = (IF loc.pc = "idle" THEN Called(s) ELSE trace)
                    \o <<Event("raised", s, Exc(e))>>

\* the execute in progress goes on to its next statement
Goto(s, l) ==
    /\ loc' = l
    /\ trace' = IF loc.pc = "idle" THEN Called(s) ELSE trace
    /\ UNCHANGED ctl

\* an execute that authenticates to the submission server first
AuthProgramSmtpFirst == <<"smtp_connect", "smtp_login", "imap_connect", "imap_login">>

\* the four server calls of execute, in statement order
AuthProgram == <<"imap_connect", "imap_login", "smtp_connect", "smtp_login">>

AuthAt(name) == Executing("auth") /\ loc.pc = "auth" /\ AuthProgram[loc.k] = name

\* after a server call that succeeded: the next one, or
\* return imap_server, smtp_server
AuthAdvance ==
    IF loc.k < Len(AuthProgram)
    THEN Goto("auth", [pc |-> "auth", k |-> loc.k + 1])
    ELSE /\ ctl' = Returning(SessionPair)
         /\ loc' = NoLoc
         /\ trace' = Append(trace, Event("returned", "auth", SessionPair))

\* the first statement reads request.imap_ssl_host: an AttributeError unless the
\* request is an EmailData
AuthBegin ==
    /\ Executing("auth") /\ loc.pc = "idle"
    /\ IF execArg.kind # "EmailData"
       THEN Fail("auth", "AttributeError")
       ELSE Goto("auth", [pc |-> "auth", k |-> 1])
    /\ UNCHANGED <<phase, prev, requested, firstLink, entry, request, stack, execArg,
                   imapSess, smtpSess, ops, found, served, out, result>>

\* imaplib.IMAP4_SSL(request.imap_ssl_host, request.imap_ssl_port)
AuthImapConnect ==
    /\ AuthAt("imap_connect")
    /\ \/ /\ ops' = Append(ops, Op("imap_connect", 0, TRUE))
          /\ imapSess' = "connected"
          /\ AuthAdvance
       \/ /\ ops' = Append(ops, Op("imap_connect", 0, FALSE))
          /\ Fail("auth", "ConnectionError")
          /\ UNCHANGED imapSess
    /\ UNCHANGED <<phase, prev, requested, firstLink, entry, request, stack, execArg,
                   smtpSess, found, served, out, result>>

\* imap_server.login(request.user_name, request.password)
AuthImapLogin ==
    /\ AuthAt("imap_login")
    /\ \/ /\ ops' = Append(ops, Op("imap_login", 0, TRUE))
          /\ imapSess' = "authenticated"
          /\ AuthAdvance
       \/ /\ ops' = Append(ops, Op("imap_login", 0, FALSE))
          /\ Fail("auth", "AuthenticationError")
          /\ UNCHANGED imapSess
    /\ UNCHANGED <<phase, prev, requested, firstLink, entry, request, stack, execArg,
                   smtpSess, found, served, out, result>>

\* smtplib.SMTP_SSL(request.smtp_ssl_host, request.smtp_ssl_port)
AuthSmtpConnect ==
    /\ AuthAt("smtp_connect")
    /\ \/ /\ ops' = Append(ops, Op("smtp_connect", 0, TRUE))
          /\ smtpSess' = "connected"
          /\ AuthAdvance
       \/ /\ ops' = Append(ops, Op("smtp_connect", 0, FALSE))
          /\ Fail("auth", "ConnectionError")
          /\ UNCHANGED smtpSess
    /\ UNCHANGED <<phase, prev, requested, firstLink, entry, request, stack, execArg,
                   imapSess, found, served, out, result>>

\* smtp_server.login(request.user_name, request.password)
AuthSmtpLogin ==
    /\ AuthAt("smtp_login")
    /\ \/ /\ ops' = Append(ops, Op("smtp_login", 0, TRUE))
          /\ smtpSess' = "authenticated"
          /\ AuthAdvance
       \/ /\ ops' = Append(ops, Op("smtp_login", 0, FALSE))
          /\ Fail("auth", "AuthenticationError")
          /\ UNCHANGED smtpSess
    /\ UNCHANGED <<phase, prev, requested, firstLink, entry, request, stack, execArg,
                   imapSess, found, served, out, result>>

-----------------------------------------------------------------------------
(* The mailbox server: search responses and RFC822 messages *)

\* the space between two identifiers of a search response
SP == 0

\* the identifier sequences a search may return: each message at most once, in
\* an order the server chooses
IdSeqs ==
    {s \in UNION {[1..n -> 1..MaxMsgs] : n \in 0..MaxMsgs} :
        \A i, j \in DOMAIN s : i # j => s[i] # s[j]}

\* the bytes of a search response: the identifiers separated by single spaces
RECURSIVE Join(_)
Join(ids) ==
    IF Len(ids) = 0 THEN <<>>
    ELSE IF Len(ids) = 1 THEN ids
    ELSE <<Head(ids), SP>> \o Join(Tail(ids))

HeaderLine(p) == [t |-> "header", name |-> p[1], value |-> p[2]]

Blank == [t |-> "blank"]

Text(s) == [t |-> "text", s |-> s]

\* the messages a fetch may hand out: no header at all; two headers and a body;
\* a repeated header name and a body line that looks like a header; bytes that
\* are not UTF-8
Mails ==
    {[hdrs |-> <<>>, body |-> <<>>, utf8 |-> TRUE],
     [hdrs |-> <<<<"From", "a@x.com">>, <<"Subject", "hi">>>>,
      body |-> <<Text("hello")>>, utf8 |-> TRUE],
     [hdrs |-> <<<<"Received", "r1">>, <<"From", "b@x.com">>, <<"Received", "r2">>>>,
      body |-> <<HeaderLine(<<"Subject", "yo">>)>>, utf8 |-> TRUE],
     [hdrs |-> <<<<"From", "a@x.com">>>>, body |-> <<>>, utf8 |-> FALSE]}

\* the RFC822 bytes of message m: header lines, then a blank line and the body
Wire(m) ==
    [utf8 |-> m.utf8,
     lines |-> [i \in 1..Len(m.hdrs) |-> HeaderLine(m.hdrs[i])]
                   \o (IF m.body = <<>> THEN <<>> ELSE <<Blank>> \o m.body)]

\* the data of a fetch response: [(envelope, bytes), b')']
FetchData(m) == << <<"envelope", Wire(m)>>, ")" >>

-----------------------------------------------------------------------------
(* GetMessageHandler.execute and its helpers *)

\* bytes.split(): the identifiers between the spaces
Split(bytes) == SelectSeq(bytes, LAMBDA c : c # SP)

\* the number of leading header lines of a text
RECURSIVE HeaderCount(_)
HeaderCount(lines) ==
    IF lines # <<>> /\ Head(lines).t = "header"
    THEN 1 + HeaderCount(Tail(lines))
    ELSE 0

\* email.message_from_string / HeaderParser.parsestr: the header lines up to the
\* first line that is none, and the rest (less a separating blank line) as payload
MessageFromString(lines) ==
    LET n == HeaderCount(lines)
        rest == SubSeq(lines, n + 1, Len(lines))
    IN [headers |-> SubSeq(lines, 1, n),
        payload |-> IF rest # <<>> /\ Head(rest).t = "blank" THEN Tail(rest) ELSE rest]

\* Message.as_string(): the headers, a blank line, the payload
AsString(m) == m.headers \o <<Blank>> \o m.payload

\* an items() that keeps one pair per header name, as a dictionary would
ItemsByName(m) ==
    LET firsts == SelectSeq([i \in 1..Len(m.headers) |-> [at |-> i, h |-> m.headers[i]]],
                            LAMBDA e : \A j \in 1..(e.at - 1) :
                                           m.headers[j].name # e.h.name)
    IN [i \in 1..Len(firsts) |-> <<firsts[i].h.name, firsts[i].h.value>>]

\* Message.items(): every header as a (name, value) pair, in order
Items(m) == [i \in 1..Len(m.headers) |-> <<m.headers[i].name, m.headers[i].value>>]

\* __get_header: parser.parsestr(email_message.as_string())
GetHeader(email_message) == MessageFromString(AsString(email_message))

\* __print_header: one printed line per item
PrintHeader(o, headers) == o \o Items(headers)

\* the local variable headers before its first assignment
NoHeaders == [headers |-> <<>>, payload |-> <<>>]

\* a loop over sorted(data[0].split())
LoopIdsSorted(l) ==
    LET ids == Split(l.data[1])
        S == {ids[k] : k \in DOMAIN ids}
    IN [k \in 1..Cardinality(S) |->
            CHOOSE x \in S : Cardinality({y \in S : y < x}) = k - 1]

\* the sequence "for num in data[0].split()" iterates: data[0] of the search
\* response, evaluated once when the loop starts
LoopIds(l) == Split(l.data[1])

\* imap_server, smtp_server = request; self.__select_mail_box(imap_server)
MsgSelect ==
    /\ Executing("msg") /\ loc.pc = "idle"
    /\ IF execArg.kind \in {"NoneType", "int", "bool"}
       THEN /\ Fail("msg", "TypeError")
            /\ UNCHANGED <<imapSess, ops>>
       ELSE IF execArg.kind # "tuple"
       THEN /\ Fail("msg", "ValueError")
            /\ UNCHANGED <<imapSess, ops>>
       ELSE \/ /\ ops' = Append(ops, Op("select", 0, TRUE))
               /\ imapSess' = "selected"
               /\ Goto("msg", [pc |-> "search"])
            \/ /\ ops' = Append(ops, Op("select", 0, FALSE))
               /\ Fail("msg", "MailboxError")
               /\ UNCHANGED imapSess
    /\ UNCHANGED <<phase, prev, requested, firstLink, entry, request, stack, execArg,
                   smtpSess, found, served, out, result>>

\* tmp, data = self.__search_mail_box(imap_server=imap_server, criterion='ALL')
MsgSearch ==
    /\ Executing("msg") /\ loc.pc = "search"
    /\ \/ \E ids \in IdSeqs :
            /\ ops' = Append(ops, Op("search", 0, TRUE))
            /\ found' = ids
            /\ Goto("msg", [pc |-> "loop", data |-> <<Join(ids)>>])
       \/ /\ ops' = Append(ops, Op("search", 0, FALSE))
          /\ Fail("msg", "SearchError")
          /\ UNCHANGED found
    /\ UNCHANGED <<phase, prev, requested, firstLink, entry, request, stack, execArg,
                   imapSess, smtpSess, served, out, result>>

\* for num in data[0].split(): the iterable is evaluated
MsgLoop ==
    /\ Executing("msg") /\ loc.pc = "loop"
    /\ Goto("msg", [pc |-> "next", data |-> loc.data, nums |-> LoopIds(loc), i |-> 1,
                    num |-> 0, message |-> <<>>, headers |-> NoHeaders])
    /\ UNCHANGED <<phase, prev, requested, firstLink, entry, request, stack, execArg,
                   imapSess, smtpSess, ops, found, served, out, result>>

\* an execute that returns at once, without closing, when there is nothing to fetch
MsgNextEarlyReturn ==
    /\ Executing("msg") /\ loc.pc = "next"
    /\ IF loc.nums = <<>>
       THEN /\ ctl' = Returning(None)
            /\ loc' = NoLoc
            /\ trace' = Append(trace, Event("returned", "msg", None))
       ELSE IF loc.i <= Len(loc.nums)
       THEN Goto("msg", [loc EXCEPT !.pc = "fetch", !.num = loc.nums[loc.i],
                                      !.i = loc.i + 1])
       ELSE Goto("msg", [pc |-> "close"])
    /\ UNCHANGED <<phase, prev, requested, firstLink, entry, request, stack, execArg,
                   imapSess, smtpSess, ops, found, served, out, result>>

\* the for statement takes the next identifier, or the loop ends
MsgNext ==
    /\ Executing("msg") /\ loc.pc = "next"
    /\ IF loc.i <= Len(loc.nums)
       THEN Goto("msg", [loc EXCEPT !.pc = "fetch", !.num = loc.nums[loc.i],
                                      !.i = loc.i + 1])
       ELSE Goto("msg", [pc |-> "close"])
    /\ UNCHANGED <<phase, prev, requested, firstLink, entry, request, stack, execArg,
                   imapSess, smtpSess, ops, found, served, out, result>>

\* an execute that skips a message whose fetch fails and goes on with the next
MsgFetchSkipsFailure ==
    /\ Executing("msg") /\ loc.pc = "fetch"
    /\ \/ \E m \in Mails :
            /\ ops' = Append(ops, Op("fetch", loc.num, TRUE))
            /\ served' = Append(served, m)
            /\ Goto("msg", [loc EXCEPT !.pc = "decode", !.data = FetchData(m)])
       \/ /\ ops' = Append(ops, Op("fetch", loc.num, FALSE))
          /\ Goto("msg", [loc EXCEPT !.pc = "next"])
          /\ UNCHANGED served
    /\ UNCHANGED <<phase, prev, requested, firstLink, entry, request, stack, execArg,
                   imapSess, smtpSess, found, out, result>>

\* tmp, data = self.__fetch_message(imap_server, num)
MsgFetch ==
    /\ Executing("msg") /\ loc.pc = "fetch"
    /\ \/ \E m \in Mails :
            /\ ops' = Append(ops, Op("fetch", loc.num, TRUE))
            /\ served' = Append(served, m)
            /\ Goto("msg", [loc EXCEPT !.pc = "decode", !.data = FetchData(m)])
       \/ /\ ops' = Append(ops, Op("fetch", loc.num, FALSE))
          /\ Fail("msg", "FetchError")
          /\ UNCHANGED served
    /\ UNCHANGED <<phase, prev, requested, firstLink, entry, request, stack, execArg,
                   imapSess, smtpSess, found, out, result>>

\* message = self.__decode_message(data): data[0][1].decode('utf-8')
MsgDecode ==
    /\ Executing("msg") /\ loc.pc = "decode"
    /\ IF loc.data[1][2].utf8
       THEN Goto("msg", [loc EXCEPT !.pc = "parse", !.message = loc.data[1][2].lines])
       ELSE Fail("msg", "DecodeError")
    /\ UNCHANGED <<phase, prev, requested, firstLink, entry, request, stack, execArg,
                   imapSess, smtpSess, ops, found, served, out, result>>

\* email_message = email.message_from_string(message);
\* headers = self.__get_header(email_message)
MsgParse ==
    /\ Executing("msg") /\ loc.pc = "parse"
    /\ Goto("msg", [loc EXCEPT !.pc = "print",
                                 !.headers = GetHeader(MessageFromString(loc.message))])
    /\ UNCHANGED <<phase, prev, requested, firstLink, entry, request, stack, execArg,
                   imapSess, smtpSess, ops, found, served, out, result>>

\* self.__print_header(headers)
MsgPrint ==
    /\ Executing("msg") /\ loc.pc = "print"
    /\ out' = PrintHeader(out, loc.headers)
    /\ Goto("msg", [loc EXCEPT !.pc = "next"])
    /\ UNCHANGED <<phase, prev, requested, firstLink, entry, request, stack, execArg,
                   imapSess, smtpSess, ops, found, served, result>>

\* self.__close_imap_server(imap_server); the function ends and returns None
\* an execute that ends with smtp_server.quit() after closing the mailbox
MsgCloseQuitsSmtp ==
    /\ Executing("msg") /\ loc.pc = "close"
    /\ \/ /\ ops' = Append(ops, Op("close", 0, TRUE))
          /\ imapSess' = "closed"
          /\ smtpSess' = "closed"
          /\ ctl' = Returning(None)
          /\ loc' = NoLoc
          /\ trace' = Append(trace, Event("returned", "msg", None))
       \/ /\ ops' = Append(ops, Op("close", 0, FALSE))
          /\ Fail("msg", "CloseError")
          /\ UNCHANGED <<imapSess, smtpSess>>
    /\ UNCHANGED <<phase, prev, requested, firstLink, entry, request, stack, execArg,
                   found, served, out, result>>

\* an execute that ends with "return 'ok'"
MsgCloseReturnsToken ==
    /\ Executing("msg") /\ loc.pc = "close"
    /\ \/ /\ ops' = Append(ops, Op("close", 0, TRUE))
          /\ imapSess' = "closed"
          /\ ctl' = Returning(Tok)
          /\ loc' = NoLoc
          /\ trace' = Append(trace, Event("returned", "msg", Tok))
       \/ /\ ops' = Append(ops, Op("close", 0, FALSE))
          /\ Fail("msg", "CloseError")
          /\ UNCHANGED imapSess
    /\ UNCHANGED <<phase, prev, requested, firstLink, entry, request, stack, execArg,
                   smtpSess, found, served, out, result>>

\* self.__close_imap_server(imap_server), and execute ends without a return
\* statement
MsgClose ==
    /\ Executing("msg") /\ loc.pc = "close"
    /\ \/ /\ ops' = Append(ops, Op("close", 0, TRUE))
          /\ imapSess' = "closed"
          /\ ctl' = Returning(None)
          /\ loc' = NoLoc
          /\ trace' = Append(trace, Event("returned", "msg", None))
       \/ /\ ops' = Append(ops, Op("close", 0, FALSE))
          /\ Fail("msg", "CloseError")
          /\ UNCHANGED imapSess
    /\ UNCHANGED <<phase, prev, requested, firstLink, entry, request, stack, execArg,
                   smtpSess, found, served, out, result>>

-----------------------------------------------------------------------------
Next ==
    \/ \E s \in Stages, h \in Stages : LinkStatement(s, h)
    \/ \E h \in Stages : LinkChained(h)
    \/ \E h \in Stages, r \in Requests : client_code(h, r)
    \/ HandleEnter
    \/ HandleReturn
    \/ Propagate
    \/ StubExecute
    \/ ImapExecute
    \/ AuthBegin
    \/ AuthImapConnect
    \/ AuthImapLogin
    \/ AuthSmtpConnect
    \/ AuthSmtpLogin
    \/ MsgSelect
    \/ MsgSearch
    \/ MsgLoop
    \/ MsgNext
    \/ MsgFetch
    \/ MsgDecode
    \/ MsgParse
    \/ MsgPrint
    \/ MsgClose

Spec == Init /\ [][Next]_vars

\* the steps of the interpreter while client_code runs
Step ==
    \/ HandleEnter
    \/ HandleReturn
    \/ Propagate
    \/ StubExecute
    \/ ImapExecute
    \/ AuthBegin
    \/ AuthImapConnect
    \/ AuthImapLogin
    \/ AuthSmtpConnect
    \/ AuthSmtpLogin
    \/ MsgSelect
    \/ MsgSearch
    \/ MsgLoop
    \/ MsgNext
    \/ MsgFetch
    \/ MsgDecode
    \/ MsgParse
    \/ MsgPrint
    \/ MsgClose

\* the interpreter goes on as long as a statement is left to execute, and every
\* call to a server returns or raises
FairSpec == Spec /\ WF_vars(Step)

-----------------------------------------------------------------------------
(* Properties of the chain runtime *)

IsEvent(i, ev) == i \in DOMAIN trace /\ trace[i].ev = ev

\* handle of some handler returned a falsy response to the handle of handler s
ShortCircuited(i) ==
    /\ IsEvent(i, "handled")
    /\ trace[i].caller # NoHandler
    /\ ~Truthy(trace[i].val)

\* C1: when the handle of a handler's predecessor yields a falsy result, that
\* handler's execute is not invoked
NoExecuteAfterFalsyResponse ==
    \A i \in DOMAIN trace :
        ShortCircuited(i) =>
            \A j \in DOMAIN trace :
                ~(IsEvent(j, "execute") /\ trace[j].stage = trace[i].caller)

\* C1 witness: the run is over, x returned 0 to the handle of auth, which
\* returned None to the handle of msg
FalsyResponseSeen ==
    /\ phase = "done"
    /\ \E i, j \in DOMAIN trace :
          /\ ShortCircuited(i) /\ trace[i].stage = "x" /\ trace[i].caller = "auth"
          /\ trace[i].val = Zero
          /\ ShortCircuited(j) /\ trace[j].stage = "auth" /\ trace[j].caller = "msg"

\* C2 as stated: a run that short-circuits on a falsy result v returns that
\* same v
ShortCircuitReturnsSameValue ==
    phase = "done" =>
        \A i \in DOMAIN trace :
            ShortCircuited(i) => result = [kind |-> "value", val |-> trace[i].val]

\* C2 amended: a run that short-circuits on a falsy result returns None,
\* whatever the falsy result was and at whatever depth it arose
ShortCircuitReturnsNone ==
    phase = "done" =>
        \A i \in DOMAIN trace :
            ShortCircuited(i) => result = [kind |-> "value", val |-> None]

\* C2 witness: the run is over after x returned an empty list two links below
\* the entry handler
ShortCircuitTwoDeep ==
    /\ phase = "done"
    /\ Len(trace) >= 3
    /\ \E i \in DOMAIN trace :
          /\ ShortCircuited(i) /\ trace[i].val = EmptySeq
          /\ ShortCircuited(i + 1) /\ IsEvent(i + 2, "handled")
          /\ trace[i + 2].caller = NoHandler

\* C3: an exception raised by an execute is the last thing the run does (no
\* execute is invoked and no handle returns after it) and is the error the run
\* ends with; when it is the AuthenticationError of AuthenticationHandler,
\* GetMessageHandler.execute was not invoked at all
FailureAbortsRun ==
    \A i \in DOMAIN trace :
        IsEvent(i, "raised") =>
            /\ i = Len(trace)
            /\ phase = "done" => result = [kind |-> "error", exc |-> trace[i].val]
            /\ (trace[i].stage = "auth" /\ trace[i].val = Exc("AuthenticationError")) =>
                  \A j \in DOMAIN trace : ~(IsEvent(j, "execute") /\ trace[j].stage = "msg")

\* C3 witness: the run on msg is over, ended by the AuthenticationError of
\* AuthenticationHandler.execute
AuthenticationFailed ==
    /\ phase = "done"
    /\ entry = "msg"
    /\ result = [kind |-> "error", exc |-> Exc("AuthenticationError")]
    /\ IsEvent(Len(trace), "raised") /\ trace[Len(trace)].stage = "auth"

-----------------------------------------------------------------------------
(* Properties of the sessions *)

\* C4: a run that selected the mailbox does not end with the mailbox still
\* selected, on a failure path either
SelectedMailboxClosedAtEnd == phase = "done" => imapSess # "selected"

IsSmtpOp(i) == ops[i].op \in {"smtp_connect", "smtp_login"}

IsImapAuthOp(i) == ops[i].op \in {"imap_connect", "imap_login"}

\* C5: every SMTP connect or login comes after an IMAP connect and an IMAP
\* login that both succeeded, and once an IMAP connect or login has failed
\* there is no SMTP connect or login in the run
ImapBeforeSmtp ==
    /\ \A i \in DOMAIN ops :
          IsSmtpOp(i) =>
              \E j, k \in 1..(i - 1) :
                  /\ j < k
                  /\ ops[j] = Op("imap_connect", 0, TRUE)
                  /\ ops[k] = Op("imap_login", 0, TRUE)
    /\ \A i \in DOMAIN ops :
          (IsImapAuthOp(i) /\ ~ops[i].ok) => \A j \in DOMAIN ops : ~IsSmtpOp(j)

\* C5 witness: the run is over, the IMAP login was rejected and nothing was
\* attempted after it
MailboxLoginRejected ==
    /\ phase = "done"
    /\ ops = <<Op("imap_connect", 0, TRUE), Op("imap_login", 0, FALSE)>>

-----------------------------------------------------------------------------
(* Properties of the enumeration *)

\* GetMessageHandler.execute ran to its end
MsgReturned == \E i \in DOMAIN trace : IsEvent(i, "returned") /\ trace[i].stage = "msg"

Searched == \E i \in DOMAIN ops : ops[i] = Op("search", 0, TRUE)

OpsNamed(name) == SelectSeq(ops, LAMBDA o : o.op = name)

\* the identifiers fetch was called with, in call order
FetchIds == [i \in 1..Len(OpsNamed("fetch")) |-> OpsNamed("fetch")[i].id]

RECURSIVE Flatten(_)
Flatten(ss) == IF ss = <<>> THEN <<>> ELSE Head(ss) \o Flatten(Tail(ss))

\* the header pairs of the messages handed out so far, message after message
ServedHeaders == Flatten([i \in 1..Len(served) |-> served[i].hdrs])

\* C6: after a search that returned no identifier nothing is fetched and
\* nothing is printed; an enumeration that ran to its end closed the mailbox
\* exactly once, as its last server operation
ClosedOnceAfterFetches ==
    /\ (Searched /\ found = <<>>) => (FetchIds = <<>> /\ out = <<>>)
    /\ MsgReturned =>
          /\ Len(OpsNamed("close")) = 1
          /\ ops[Len(ops)] = Op("close", 0, TRUE)

\* C6 witness: the enumeration of an empty mailbox ran to its end
EmptyMailboxEnumerated == phase = "done" /\ MsgReturned /\ Searched /\ found = <<>>

\* C7: an enumeration that ran to its end fetched the identifiers of the
\* search once each in search order and printed exactly the header pairs of the
\* fetched messages, message after message, each message's pairs in its own
\* order and repeated names included
HeadersInSearchOrder ==
    MsgReturned =>
        /\ FetchIds = found
        /\ Len(served) = Len(found)
        /\ out = ServedHeaders

\* C7 witness: identifiers 2, 1 were found; the message with a repeated header
\* name and a header-like body line came first, the two-header message second
TwoMessagesPrinted ==
    /\ phase = "done" /\ MsgReturned
    /\ found = <<2, 1>>
    /\ Len(served) = 2
    /\ Len(served[1].hdrs) = 3 /\ served[1].body # <<>>
    /\ served[2].hdrs = <<<<"From", "a@x.com">>, <<"Subject", "hi">>>>

\* C8: a fetch that fails is the last server operation of the run; execute
\* raises its error, which the run ends with; the identifiers fetched are a
\* prefix of the search result, and the output is the header pairs of the
\* messages fetched before the failure
FetchFailureStops ==
    \A i \in DOMAIN ops :
        (ops[i].op = "fetch" /\ ~ops[i].ok) =>
            /\ i = Len(ops)
            /\ trace # <<>> /\ trace[Len(trace)] = Event("raised", "msg", Exc("FetchError"))
            /\ phase = "done" => result = [kind |-> "error", exc |-> Exc("FetchError")]
            /\ Len(FetchIds) <= Len(found) /\ FetchIds = SubSeq(found, 1, Len(FetchIds))
            /\ Len(served) = Len(FetchIds) - 1
            /\ out = ServedHeaders

\* C8 witness: the run is over; of two identifiers the first was fetched and
\* printed and the fetch of the second failed
SecondFetchFailed ==
    /\ phase = "done"
    /\ Len(found) = 2 /\ Len(served) = 1 /\ out # <<>>
    /\ ops[Len(ops)] = Op("fetch", found[2], FALSE)

-----------------------------------------------------------------------------
(* Properties of linking and of the data flow *)

\* the execute calls of the run, and what each ended with, in order
Execs == SelectSeq(trace, LAMBDA e : e.ev = "execute")

Outcomes == SelectSeq(trace, LAMBDA e : e.ev \in {"returned", "raised"})

Value(v) == [kind |-> "value", val |-> v]

\* the set_prev calls made last on each handler are c.set_prev(b) and
\* b.set_prev(a), and none on any other handler
LinkedAs(a, b, c) ==
    requested = [s \in Stages |-> IF s = c THEN b ELSE IF s = b THEN a ELSE NoHandler]

\* the finished run is the run of the chain a, b, c: execute is invoked on a
\* with the request, then on b and on c with the result before, as long as the
\* results are truthy, and the run ends with the first error, or with the
\* result of c, or with None after a falsy result
RunOfChain(a, b, c) ==
    LET order == <<a, b, c>>
        n == Len(Execs)
    IN /\ n \in 1..3 /\ Len(Outcomes) = n
       /\ \A i \in 1..n : Execs[i].stage = order[i] /\ Outcomes[i].stage = order[i]
       /\ Execs[1].val = request
       /\ \A i \in 2..n :
             /\ Outcomes[i - 1].ev = "returned"
             /\ Truthy(Outcomes[i - 1].val)
             /\ Execs[i].val = Outcomes[i - 1].val
       /\ IF Outcomes[n].ev = "raised"
          THEN result = [kind |-> "error", exc |-> Outcomes[n].val]
          ELSE IF n = 3 THEN result = Value(Outcomes[n].val)
          ELSE ~Truthy(Outcomes[n].val) /\ result = Value(None)

\* C9: when the links made are c.set_prev(b) and b.set_prev(a), whichever of
\* the two handlers was linked first, a finished run on c is the run of the
\* chain a, b, c: the execute calls, their arguments and the result depend on
\* what the executes return and not on the order of linking
LinkOrderIndependent ==
    \A a, b, c \in Stages :
        ( /\ a # b /\ b # c /\ a # c
          /\ phase = "done" /\ entry = c
          /\ LinkedAs(a, b, c)
          /\ firstLink \in {b, c} ) => RunOfChain(a, b, c)

\* C9 witness: auth.set_prev(imap) was made before msg.set_prev(auth), and the
\* run on msg invoked the three executes
LinkedBackToFront ==
    /\ phase = "done" /\ entry = "msg"
    /\ LinkedAs("imap", "auth", "msg")
    /\ firstLink = "auth"
    /\ Len(Execs) = 3

\* C10: every handle call of the run has the initial request as its request;
\* a handler without predecessor has its execute invoked with the initial
\* request, any other handler with the value its predecessor's handle has just
\* returned to it; and the run returns what the execute of the entry handler
\* returned
RequestReachesOriginOnly ==
    /\ \A k \in DOMAIN stack : stack[k].request = request
    /\ \A i \in DOMAIN trace :
          IsEvent(i, "execute") =>
              IF prev[trace[i].stage] = NoHandler
              THEN trace[i].val = request
              ELSE /\ IsEvent(i - 1, "handled")
                   /\ trace[i - 1].stage = prev[trace[i].stage]
                   /\ trace[i - 1].caller = trace[i].stage
                   /\ trace[i - 1].val = trace[i].val
    /\ \A i \in DOMAIN trace :
          (IsEvent(i, "returned") /\ trace[i].stage = entry /\ phase = "done") =>
              result = Value(trace[i].val)

\* C10 witness: the run on msg over imap and auth is over, each execute was
\* invoked, and AuthenticationHandler.execute had the EmailData as argument
CanonicalRunDone ==
    /\ phase = "done" /\ entry = "msg" /\ request = ValidReq
    /\ prev = [s \in Stages |-> IF s = "msg" THEN "auth"
                                ELSE IF s = "auth" THEN "imap" ELSE NoHandler]
    /\ Len(Execs) = 3
    /\ Execs[2].val = EmailData(ValidReq.map)
    /\ result = Value(None)

-----------------------------------------------------------------------------
(* ImapHandler.execute on its own, over request dictionaries of every shape *)

KeySet == {Keys[i] : i \in 1..Len(Keys)}

\* the value None
NoneVal == [t |-> "NoneType"]

\* marks a key the dictionary does not have
Absent == [t |-> "absent"]

\* what a dictionary may hold under key k: the value of the main block, an
\* empty string or a port outside 1..65535, a value EmailData cannot take for
\* the field (None as a string, a word as a port), or nothing
Choices(k) ==
    IF FieldType[k] = "str"
    THEN {ValidReq.map[k], StrVal(""), NoneVal, Absent}
    ELSE {ValidReq.map[k], IntVal(0), IntVal(65536), StrVal("imaps"), Absent}

\* the dictionary with the keys f gives a value to
Dict(f) == [kind |-> "dict", map |-> [k \in {j \in KeySet : f[j] # Absent} |-> f[k]]]

RawRequests ==
    {Dict([user_name |-> u, password |-> p, imap_ssl_port |-> ip,
           imap_ssl_host |-> ih, smtp_ssl_port |-> sp, smtp_ssl_host |-> sh]) :
        u \in Choices("user_name"), p \in Choices("password"),
        ip \in Choices("imap_ssl_port"), ih \in Choices("imap_ssl_host"),
        sp \in Choices("smtp_ssl_port"), sh \in Choices("smtp_ssl_host")}

\* imap = ImapHandler(); client_code(imap, request) with imap unlinked
NextCred ==
    \/ phase = "build" /\ \E r \in RawRequests : client_code("imap", r)
    \/ HandleEnter
    \/ ImapExecute
    \/ HandleReturn
    \/ Propagate

SpecCred == Init /\ [][NextCred]_vars

\* the execute call of ImapHandler at position i of the trace and its outcome
ImapCall(i) == IsEvent(i, "execute") /\ trace[i].stage = "imap" /\ i + 1 \in DOMAIN trace

LacksKey(arg) == arg.kind = "dict" /\ \E k \in KeySet : k \notin DOMAIN arg.map

WellTyped(arg) ==
    /\ arg.kind = "dict"
    /\ KeySet \subseteq DOMAIN arg.map
    /\ \A k \in KeySet : arg.map[k].t = FieldType[k]

\* C11: ImapHandler.execute on a dictionary that lacks one of the six keys
\* raises ValidationError, and no other kind of error, and returns no EmailData
MissingKeyRaisesValidationError ==
    \A i \in DOMAIN trace :
        (ImapCall(i) /\ LacksKey(trace[i].val)) =>
            trace[i + 1] = Event("raised", "imap", Exc("ValidationError"))

\* C12: ImapHandler.execute on a dictionary holding the six keys with values
\* of the declared types returns an EmailData whose six fields are the values
\* of the dictionary, and the dictionary is what it was before the call
WellTypedRequestCopied ==
    \A i \in DOMAIN trace :
        (ImapCall(i) /\ WellTyped(trace[i].val)) =>
            /\ trace[i + 1].ev = "returned"
            /\ trace[i + 1].val.kind = "EmailData"
            /\ \A k \in KeySet :
                  CASE k = "user_name" -> trace[i + 1].val.user_name = trace[i].val.map[k]
                    [] k = "password" -> trace[i + 1].val.password = trace[i].val.map[k]
                    [] k = "imap_ssl_port" -> trace[i + 1].val.imap_ssl_port = trace[i].val.map[k]
                    [] k = "imap_ssl_host" -> trace[i + 1].val.imap_ssl_host = trace[i].val.map[k]
                    [] k = "smtp_ssl_port" -> trace[i + 1].val.smtp_ssl_port = trace[i].val.map[k]
                    [] k = "smtp_ssl_host" -> trace[i + 1].val.smtp_ssl_host = trace[i].val.map[k]
            /\ execArg = trace[i].val
            /\ request = trace[i].val

\* C12 witness: the dictionary of the main block was turned into an EmailData
\* and the run returned it
MainBlockRequestBuilt ==
    /\ phase = "done" /\ entry = "imap" /\ request = ValidReq
    /\ ImapCall(1)
    /\ trace[2].ev = "returned"
    /\ result = Value(trace[2].val)

NonEmpty(v) == v.t = "str" /\ v.s # ""

PortInRange(v) == v.t = "int" /\ v.i \in 1..65535

InRange(e) ==
    /\ NonEmpty(e.user_name) /\ NonEmpty(e.password)
    /\ NonEmpty(e.imap_ssl_host) /\ NonEmpty(e.smtp_ssl_host)
    /\ PortInRange(e.imap_ssl_port) /\ PortInRange(e.smtp_ssl_port)

-----------------------------------------------------------------------------
(* Linking on its own, with two instances of one class *)

\* imap = ImapHandler(), imap2 = ImapHandler(), msg = GetMessageHandler()
Instances == {"imap", "imap2", "msg"}

InitLink ==
    /\ phase = "build"
    /\ prev = [s \in Instances |-> NoHandler]
    /\ requested = [s \in Instances |-> NoHandler]
    /\ firstLink = NoHandler
    /\ entry = NoHandler
    /\ request = None
    /\ stack = <<>>
    /\ ctl = Running
    /\ execArg = None
    /\ loc = NoLoc
    /\ imapSess = "absent"
    /\ smtpSess = "absent"
    /\ ops = <<>>
    /\ found = <<>>
    /\ served = <<>>
    /\ out = <<>>
    /\ trace = <<>>
    /\ result = [kind |-> "pending"]

NextLink ==
    \/ \E s \in Instances, h \in Instances : LinkStatement(s, h)
    \/ \E h \in Instances : LinkChained(h)

SpecLink == InitLink /\ [][NextLink]_vars

Linking == phase = "build" /\ ctl.mode = "return"

\* C15: set_prev returns the handler it was given, not the handler it was
\* called on, so a chained call acts on the predecessor given to the call
\* before it; and msg.set_prev(auth).set_prev(imap), when no set_prev was ever
\* called on imap, leaves msg with predecessor auth, auth with predecessor imap
\* and imap with none
SetPrevReturnsPredecessor ==
    Linking =>
        /\ ctl.val = HandlerRef(ctl.call.handler)
        /\ ctl.call.chained => ctl.call.self = ctl.call.after
        /\ ( /\ ctl.call.chained
             /\ ctl.call.before = "msg" /\ ctl.call.after = "auth"
             /\ ctl.call.handler = "imap"
             /\ requested["imap"] = NoHandler )
           => (prev["msg"] = "auth" /\ prev["auth"] = "imap" /\ prev["imap"] = NoHandler)

\* C15 witness: the first statement made is the chained call of the main block
MainBlockLinked ==
    /\ Linking
    /\ firstLink = "msg"
    /\ ctl.call = [self |-> "auth", handler |-> "imap", chained |-> TRUE,
                   before |-> "msg", after |-> "auth"]
    /\ prev = [s \in Stages |-> IF s = "msg" THEN "auth"
                                ELSE IF s = "auth" THEN "imap" ELSE NoHandler]

\* C17: the predecessor of each instance is the argument of the last set_prev
\* call made on that very instance, and none when set_prev was never called on
\* it: a call on one instance leaves the predecessor of every other instance,
\* of its class or of another, as it was
PredecessorPerInstance ==
    \A s \in DOMAIN prev : prev[s] = requested[s]

\* C17 witness: set_prev was called on one ImapHandler and on the
\* GetMessageHandler and never on the other ImapHandler, which has no
\* predecessor
OneOfTwoImapHandlersLinked ==
    /\ Linking
    /\ DOMAIN prev = Instances
    /\ requested["imap"] = "msg" /\ prev["imap"] = "msg"
    /\ requested["msg"] = "imap2" /\ prev["msg"] = "imap2"
    /\ requested["imap2"] = NoHandler /\ prev["imap2"] = NoHandler

-----------------------------------------------------------------------------
(* Properties of GetMessageHandler.execute and of the sessions *)

\* the place of a server operation in the order of GetMessageHandler.execute
Rank(o) ==
    CASE o.op = "select" -> 1
      [] o.op = "search" -> 2
      [] o.op = "fetch" -> 3
      [] o.op = "close" -> 4
      [] OTHER -> 0

InLoopBody == Executing("msg") /\ loc.pc \in {"next", "fetch", "decode", "parse", "print"}

\* C16: the mailbox operations of a run are made in the order select, search,
\* fetches, close, with at most one select, one search and one close; a fetch
\* is made only after the search succeeded; the loop iterates over the
\* identifiers of that one search whatever the loop body has bound to data
\* since, so the identifiers fetched are, one by one and in their order, those
\* of the search, and all of them once the mailbox is closed
FetchesFollowTheOneSearch ==
    /\ \A i, j \in DOMAIN ops : i < j => Rank(ops[i]) <= Rank(ops[j])
    /\ \A name \in {"select", "search", "close"} : Len(OpsNamed(name)) <= 1
    /\ \A j \in DOMAIN ops :
          ops[j].op = "fetch" =>
              \E i, k \in 1..(j - 1) :
                  /\ i < k
                  /\ ops[i] = Op("select", 0, TRUE)
                  /\ ops[k] = Op("search", 0, TRUE)
    /\ Len(FetchIds) <= Len(found)
    /\ \A i \in DOMAIN FetchIds : FetchIds[i] = found[i]
    /\ InLoopBody => loc.nums = found
    /\ OpsNamed("close") # <<>> => FetchIds = found

\* C16 witness: the search returned 2, 1; the loop is at its second iteration
\* with data bound to the response of the first fetch, and goes on with 1
SecondIterationAfterRebinding ==
    /\ InLoopBody /\ loc.pc = "fetch"
    /\ found = <<2, 1>>
    /\ FetchIds = <<2>>
    /\ loc.num = 1
    /\ loc.data = FetchData(served[1])

\* handler s has returned from its execute
Returned(s) == \E i \in DOMAIN trace : IsEvent(i, "returned") /\ trace[i].stage = s

\* C18: once AuthenticationHandler.execute has returned, the SMTP session is
\* authenticated and stays open to the end of the run, whatever becomes of the
\* run: no handler closes it
SmtpSessionNeverClosed ==
    /\ smtpSess # "closed"
    /\ Returned("auth") => smtpSess = "authenticated"

\* C18 witness: the run is over, the mailbox was enumerated and closed, and the
\* SMTP session is still open
SmtpOpenAfterEnumeration ==
    /\ phase = "done"
    /\ Returned("auth") /\ Returned("msg")
    /\ imapSess = "closed"
    /\ smtpSess = "authenticated"

\* C20: GetMessageHandler.execute returns None whenever it returns, so a run
\* on msg that ends with a value ends with None, after an enumeration as after
\* a short circuit, and the execute of a handler whose predecessor is msg is
\* never invoked
MsgExecuteReturnsNothing ==
    /\ \A i \in DOMAIN trace :
          (IsEvent(i, "returned") /\ trace[i].stage = "msg") => trace[i].val = None
    /\ (phase = "done" /\ entry = "msg" /\ result.kind = "value") => result = Value(None)
    /\ \A i \in DOMAIN trace :
          IsEvent(i, "execute") => prev[trace[i].stage] # "msg"

\* C20 witness: x has msg as predecessor; the run on x enumerated the mailbox
\* to its end, then ended with None without an execute call on x
SuccessorOfMsgSkipped ==
    /\ phase = "done" /\ entry = "x" /\ prev["x"] = "msg"
    /\ Returned("msg") /\ out # <<>>
    /\ \A i \in DOMAIN trace : IsEvent(i, "execute") => trace[i].stage # "x"
    /\ result = Value(None)

-----------------------------------------------------------------------------
(* Termination *)

\* the handlers from s along the predecessor links, n at most; the links from
\* s are acyclic when the path ends among the first Cardinality(Stages)
RECURSIVE Path(_, _)
Path(s, n) == IF s = NoHandler \/ n = 0 THEN <<>> ELSE <<s>> \o Path(prev[s], n - 1)

RECURSIVE EndsWithin(_, _)
EndsWithin(s, n) == s = NoHandler \/ (n > 0 /\ EndsWithin(prev[s], n - 1))

Acyclic == EndsWithin(entry, Cardinality(Stages))

RecursionFailed ==
    \/ phase = "run" /\ ctl.mode = "raise" /\ ctl.exc = Exc("RecursionError")
    \/ phase = "done" /\ result = [kind |-> "error", exc |-> Exc("RecursionError")]

\* in every state of a run: over acyclic links the nesting of handle calls is
\* at most the length of the path and no RecursionError is raised; no execute
\* is invoked twice; an execute of a handler with a predecessor is invoked
\* after the execute of the predecessor returned a truthy value; and over
\* links with a cycle, which handle does not check for, the run ends with
\* RecursionError before any execute
RunSafety ==
    phase \in {"run", "done"} =>
        /\ Acyclic =>
              /\ ~RecursionFailed
              /\ Len(stack) <= Len(Path(entry, Cardinality(Stages)))
        /\ \A i, j \in DOMAIN trace :
              (i < j /\ IsEvent(i, "execute") /\ IsEvent(j, "execute")) =>
                  trace[i].stage # trace[j].stage
        /\ \A i \in DOMAIN trace :
              (IsEvent(i, "execute") /\ prev[trace[i].stage] # NoHandler) =>
                  \E j \in 1..(i - 1) :
                      /\ IsEvent(j, "returned")
                      /\ trace[j].stage = prev[trace[i].stage]
                      /\ Truthy(trace[j].val)
        /\ ~Acyclic =>
              /\ Execs = <<>>
              /\ phase = "done" => RecursionFailed

\* C19: a run over acyclic links terminates, with a value or with the error
\* of an execute, having invoked each execute at most once and each only after
\* the execute of its predecessor returned a truthy value; nothing in handle
\* checks for a cycle
AcyclicRunTerminates ==
    /\ []RunSafety
    /\ (phase = "run" /\ Acyclic) ~> (phase = "done" /\ ~RecursionFailed)

\* C19 witness: the run over x, msg, auth, imap, four handlers deep, is over:
\* the execute of imap, auth and msg was invoked once each, in that order
FourDeepRunDone ==
    /\ phase = "done" /\ entry = "x" /\ Acyclic
    /\ Path(entry, Cardinality(Stages)) = <<"x", "msg", "auth", "imap">>
    /\ Len(Execs) = 3
    /\ Execs[1].stage = "imap" /\ Execs[2].stage = "auth" /\ Execs[3].stage = "msg"

-----------------------------------------------------------------------------
(* Two runs in a row on the same handlers *)

\* a second run has begun: the trace starts with the record of the first
SecondRun == trace # <<>> /\ trace[1].ev = "first_run"

FirstRun == trace[1].val

\* client_code(entry, request) once more, with the request of the main block,
\* after the first call has ended. The run makes its own IMAP4_SSL and SMTP_SSL
\* objects; the histories start anew, and what the first run printed and was
\* served is kept.
Rerun ==
    /\ phase = "done" /\ ~SecondRun
    /\ request = ValidReq
    /\ phase' = "run"
    /\ stack' = <<Frame(entry, request)>>
    /\ ctl' = Running
    /\ execArg' = None
    /\ loc' = NoLoc
    /\ imapSess' = "absent"
    /\ smtpSess' = "absent"
    /\ trace' = <<Event("first_run", entry,
                        [out |-> out, ops |-> ops, found |-> found, served |-> served])>>
    /\ ops' = <<>>
    /\ found' = <<>>
    /\ served' = <<>>
    /\ out' = <<>>
    /\ result' = [kind |-> "pending"]
    /\ UNCHANGED <<prev, requested, firstLink, entry, request>>

IsPrefix(s, u) == Len(s) <= Len(u) /\ \A i \in DOMAIN s : s[i] = u[i]

\* the servers and the mailbox are unchanged between the two runs: each server
\* operation of the second run ends as it did in the first, the search returns
\* the same identifiers and each fetch the same message
SameServer ==
    SecondRun =>
        /\ IsPrefix(ops, FirstRun.ops)
        /\ IsPrefix(served, FirstRun.served)
        /\ Searched => found = FirstRun.found

NextTwice ==
    \/ \E s \in Stages, h \in Stages : LinkStatement(s, h)
    \/ \E h \in Stages : LinkChained(h)
    \/ \E h \in Stages, r \in Requests : client_code(h, r)
    \/ Rerun
    \/ HandleEnter
    \/ HandleReturn
    \/ Propagate
    \/ StubExecute
    \/ ImapExecute
    \/ AuthBegin
    \/ AuthImapConnect /\ SameServer'
    \/ AuthImapLogin /\ SameServer'
    \/ AuthSmtpConnect /\ SameServer'
    \/ AuthSmtpLogin /\ SameServer'
    \/ MsgSelect /\ SameServer'
    \/ MsgSearch /\ SameServer'
    \/ MsgLoop
    \/ MsgNext
    \/ MsgFetch /\ SameServer'
    \/ MsgDecode
    \/ MsgParse
    \/ MsgPrint
    \/ MsgClose /\ SameServer'

SpecTwice == Init /\ [][NextTwice]_vars

\* C14: when client_code is called twice in a row on the same handlers with
\* the request of the main block and the servers unchanged, the second run
\* prints the lines the first printed, after the same server operations; and
\* the links are in the second run what the set_prev calls made them
TwoRunsPrintTheSame ==
    SecondRun =>
        /\ prev = requested
        /\ phase = "done" =>
              /\ out = FirstRun.out
              /\ ops = FirstRun.ops
              /\ served = FirstRun.served

\* C14 witness: the second run on msg over imap and auth is over; both runs
\* enumerated two messages and printed their headers
TwoRunsOfTwoMessages ==
    /\ SecondRun /\ phase = "done" /\ entry = "msg"
    /\ Returned("msg")
    /\ Len(found) = 2
    /\ out # <<>> /\ out = FirstRun.out

====
